---- MODULE Spec2Model ----
(***************************************************************************)
(* VisualSense: the asset-discovery and audit-orchestration pipeline.      *)
(*                                                                         *)
(* The repository holds three builds of the pipeline:                      *)
(*   "index" : src/index.tsx (single-file build, helpers inlined)          *)
(*   "App"   : src/App.tsx + src/services/geminiService.ts                 *)
(*   "part"  : src/unnamed/part_005 (App) + src/unnamed/part_002 (service) *)
(* The variable build selects which one runs; it never changes.            *)
(*                                                                         *)
(* JavaScript strings are TLA+ strings; null/undefined are the sentinels   *)
(* NULL and UNDEFINED, which no markup, URL or message here contains.      *)
(***************************************************************************)
EXTENDS Integers, Sequences, FiniteSets, TLC

(* ------------------------------------------------------------------ *)
(* JavaScript values                                                   *)
(* ------------------------------------------------------------------ *)
NULL == "<null>"
UNDEFINED == "<undefined>"

\* JS truthiness of a string-or-null value: null, undefined and "" are falsy
Truthy(s) == s # NULL /\ s # UNDEFINED /\ s # ""

\* a || b on string-or-null values
Or(a, b) == IF Truthy(a) THEN a ELSE b

(* ------------------------------------------------------------------ *)
(* String.prototype helpers                                            *)
(* ------------------------------------------------------------------ *)
CharAt(s, i) == SubSeq(s, i, i)

StartsWith(s, p) == Len(p) <= Len(s) /\ SubSeq(s, 1, Len(p)) = p

EndsWith(s, p) == Len(p) <= Len(s) /\ SubSeq(s, Len(s) - Len(p) + 1, Len(s)) = p

Includes(s, p) == \E i \in 1..(Len(s) - Len(p) + 1) : SubSeq(s, i, i + Len(p) - 1) = p

UpperChars == "ABCDEFGHIJKLMNOPQRSTUVWXYZ"
LowerChars == "abcdefghijklmnopqrstuvwxyz"

LowerChar(c) ==
  IF \E i \in 1..26 : CharAt(UpperChars, i) = c
  THEN CharAt(LowerChars, CHOOSE i \in 1..26 : CharAt(UpperChars, i) = c)
  ELSE c

RECURSIVE ToLowerCase(_)
ToLowerCase(s) ==
  IF s = "" THEN "" ELSE LowerChar(CharAt(s, 1)) \o ToLowerCase(Tail(s))

\* index of the first occurrence of the one-character string c in s from position i
\* on, 0 if none
RECURSIVE IndexFrom(_, _, _)
IndexFrom(s, c, i) ==
  IF i > Len(s) THEN 0
  ELSE IF CharAt(s, i) = c THEN i
  ELSE IndexFrom(s, c, i + 1)

IndexOf(s, c) == IndexFrom(s, c, 1)

\* s.split(c) for a one-character separator c
RECURSIVE Split(_, _)
Split(s, c) ==
  LET i == IndexOf(s, c)
  IN IF i = 0 THEN <<s>>
     ELSE <<SubSeq(s, 1, i - 1)>> \o Split(SubSeq(s, i + 1, Len(s)), c)

RECURSIVE TrimStart(_)
TrimStart(s) == IF s # "" /\ CharAt(s, 1) = " " THEN TrimStart(Tail(s)) ELSE s

RECURSIVE TrimEnd(_)
TrimEnd(s) ==
  IF s # "" /\ CharAt(s, Len(s)) = " " THEN TrimEnd(SubSeq(s, 1, Len(s) - 1)) ELSE s

Trim(s) == TrimEnd(TrimStart(s))

\* Array.from(new Set(xs)): first occurrences, in order
RECURSIVE Dedupe(_)
Dedupe(xs) ==
  IF xs = <<>> THEN <<>>
  ELSE LET init == Dedupe(SubSeq(xs, 1, Len(xs) - 1))
           last == xs[Len(xs)]
       IN IF \E i \in 1..Len(init) : init[i] = last THEN init ELSE Append(init, last)

\* a truncation that keeps the last n elements
SliceTail(xs, n) == SubSeq(xs, IF Len(xs) < n THEN 1 ELSE Len(xs) - n + 1, Len(xs))

\* xs.slice(0, n)
Slice(xs, n) == SubSeq(xs, 1, IF Len(xs) < n THEN Len(xs) ELSE n)

\* xs.filter(keep), keep given as the set of kept indices
RECURSIVE FilterIdx(_, _)
FilterIdx(xs, keep) ==
  IF xs = <<>> THEN <<>>
  ELSE LET init == FilterIdx(SubSeq(xs, 1, Len(xs) - 1), keep)
       IN IF Len(xs) \in keep THEN Append(init, xs[Len(xs)]) ELSE init

(* ------------------------------------------------------------------ *)
(* WHATWG URL, as far as the pipeline uses it: new URL(u, base).href   *)
(* and new URL(u).origin.  Dot segments, ports, credentials and        *)
(* percent-encoding are not rewritten; the markup below has none.      *)
(* ------------------------------------------------------------------ *)
SchemeChars == LowerChars \o UpperChars \o "0123456789+-."

IsSchemeChar(c) == \E i \in 1..Len(SchemeChars) : CharAt(SchemeChars, i) = c

IsAlpha(c) == \E i \in 1..52 : CharAt(SchemeChars, i) = c

\* length of the scheme of u (the text before its first ":"), 0 when u has none
SchemeLen(u) ==
  LET i == IndexOf(u, ":")
  IN IF i > 1 /\ IsAlpha(CharAt(u, 1)) /\ \A j \in 1..(i - 1) : IsSchemeChar(CharAt(u, j))
     THEN i - 1 ELSE 0

SchemeOf(u) == ToLowerCase(SubSeq(u, 1, SchemeLen(u)))

IsSpecialScheme(sch) == sch \in {"http", "https"}

\* index of the first "/", "?" or "#" of s, Len(s) + 1 if none
AuthorityEnd(s) ==
  IF \E i \in 1..Len(s) : CharAt(s, i) \in {"/", "?", "#"}
  THEN CHOOSE i \in 1..Len(s) :
         /\ CharAt(s, i) \in {"/", "?", "#"}
         /\ \A j \in 1..(i - 1) : CharAt(s, j) \notin {"/", "?", "#"}
  ELSE Len(s) + 1

\* "/" prepended to the text after the authority unless it starts with one
pathOf(tail) == IF tail = "" \/ ~StartsWith(tail, "/") THEN "/" \o tail ELSE tail

BadUrl == [ok |-> FALSE, scheme |-> "", host |-> "", tail |-> ""]

\* scheme sch with the text auth that follows its "//"; ok is FALSE for an empty host
parseAuthority(sch, auth) ==
  IF AuthorityEnd(auth) = 1 THEN BadUrl
  ELSE [ok     |-> TRUE,
        scheme |-> sch,
        host   |-> ToLowerCase(SubSeq(auth, 1, AuthorityEnd(auth) - 1)),
        tail   |-> pathOf(SubSeq(auth, AuthorityEnd(auth), Len(auth)))]

\* the text of u after "scheme:"
afterScheme(u) == SubSeq(u, SchemeLen(u) + 2, Len(u))

\* the parsed form of an absolute http(s) URL text; ok is FALSE when the parser throws
ParseSpecial(u) ==
  IF ~StartsWith(afterScheme(u), "//") THEN BadUrl
  ELSE parseAuthority(SchemeOf(u), SubSeq(afterScheme(u), 3, Len(afterScheme(u))))

hrefOf(p)   == IF ~p.ok THEN NULL ELSE p.scheme \o "://" \o p.host \o p.tail
originOf(p) == IF ~p.ok THEN NULL ELSE p.scheme \o "://" \o p.host

\* URLOrigin for input without surrounding spaces
originOfTrimmed(t) ==
  IF SchemeLen(t) = 0 THEN NULL
  ELSE IF ~IsSpecialScheme(SchemeOf(t)) THEN "null"
  ELSE originOf(ParseSpecial(t))

\* new URL(u).origin for a page URL; NULL when new URL(u) throws
URLOrigin(u) == originOfTrimmed(Trim(u))

\* URLHref for input without surrounding spaces
hrefOfTrimmed(t, base) ==
  IF SchemeLen(t) > 0
  THEN IF IsSpecialScheme(SchemeOf(t)) THEN hrefOf(ParseSpecial(t)) ELSE t
  ELSE IF base = NULL \/ SchemeLen(base) = 0 THEN NULL
  ELSE IF StartsWith(t, "//") THEN hrefOf(ParseSpecial(SchemeOf(base) \o ":" \o t))
  ELSE IF StartsWith(t, "/") THEN base \o t
  ELSE base \o "/" \o t

\* new URL(u, base).href where base is an origin; NULL when the constructor throws
URLHref(u, base) == hrefOfTrimmed(Trim(u), base)

(* ------------------------------------------------------------------ *)
(* The parsed document: what the DOM queries of handleAnalyze read.    *)
(*   og      : content of the first meta[property="og:image"], or NULL *)
(*   sources : srcset attribute of every <source>, in document order   *)
(*   imgs    : attributes of every <img>, in document order            *)
(* getAttribute gives NULL for an absent attribute.                    *)
(* ------------------------------------------------------------------ *)
Img(src, dataSrc, dataZoomSrc, dataLazySrc, dataOriginal, srcset) ==
  [src |-> src, dataSrc |-> dataSrc, dataZoomSrc |-> dataZoomSrc,
   dataLazySrc |-> dataLazySrc, dataOriginal |-> dataOriginal, srcset |-> srcset]

ImgSrc(src) == Img(src, NULL, NULL, NULL, NULL, NULL)

\* parts.map(p => p.trim().split(' ')[0])
firstTokens(parts) == [i \in 1..Len(parts) |-> Split(Trim(parts[i]), " ")[1]]

\* a selection of the first listed entry
firstOf(sets) == sets[1]

\* sets[sets.length - 1]
lastOf(sets) == sets[Len(sets)]

\* srcset.split(',').map(p => p.trim().split(' ')[0]), then its last element
LastSrcsetEntry(srcset) == lastOf(firstTokens(Split(srcset, ",")))

\* the truthy elements of xs, in order
Truthies(xs) == FilterIdx(xs, {i \in 1..Len(xs) : Truthy(xs[i])})

(* ---------------- build "index": src/index.tsx ---------------- *)
MaxCandidatesIndex == 4

\* an extractor that does not read the og:image metadata
ogCandidatesNone(doc) == <<>>

ogCandidates(doc) == IF Truthy(doc.og) THEN <<doc.og>> ELSE <<>>

lastEntries(srcsets) == [i \in 1..Len(srcsets) |-> LastSrcsetEntry(srcsets[i])]

\* the forEach over doc.querySelectorAll('source')
sourceCandidates(doc) == lastEntries(Truthies(doc.sources))

\* the forEach body over doc.querySelectorAll('img'): the value of foundUrl
foundUrl(img) ==
  IF Truthy(img.srcset) THEN LastSrcsetEntry(img.srcset)
  ELSE Or(Or(Or(img.dataSrc, img.dataLazySrc), img.dataOriginal), img.src)

imgCandidates(doc) == Truthies([i \in 1..Len(doc.imgs) |-> foundUrl(doc.imgs[i])])

candidatesOf(doc) == ogCandidates(doc) \o sourceCandidates(doc) \o imgCandidates(doc)

isSvg(low) ==
  \/ EndsWith(low, ".svg")
  \/ Includes(low, ".svg?")
  \/ Includes(low, "image/svg+xml")
  \/ Includes(low, "data:image/svg+xml")

\* the tests of the filter on low = u.toLowerCase()
keepLower(low) == ~Includes(low, "icon") /\ ~Includes(low, "logo") /\ ~isSvg(low)

\* the predicate of the .filter() over the resolved URLs
keepResolved(u) == Truthy(u) /\ StartsWith(u, "http") /\ keepLower(ToLowerCase(u))

\* .map(u => { try { return new URL(u, targetBase).href } catch { return null } })
mapResolved(uniq, targetBase) == [i \in 1..Len(uniq) |-> URLHref(uniq[i], targetBase)]

filterResolved(mapped) == FilterIdx(mapped, {i \in 1..Len(mapped) : keepResolved(mapped[i])})

resolvedUrlsOf(candidates, targetBase) ==
  Slice(filterResolved(mapResolved(Dedupe(candidates), targetBase)), MaxCandidatesIndex)

(* -------- builds "App" and "part": src/App.tsx, part_005 -------- *)
MaxCandidatesApp == 5

\* data-src || data-zoom-src || data-lazy-src || '' ; part_005 has no data-lazy-src
dataSrcOf(img, b) ==
  IF b = "App" THEN Or(Or(Or(img.dataSrc, img.dataZoomSrc), img.dataLazySrc), "")
  ELSE Or(Or(img.dataSrc, img.dataZoomSrc), "")

\* targetUrl after `let targetUrl = dataSrc || src` and the srcset override
rawTargetOf(img, b) ==
  IF Truthy(Or(img.srcset, ""))
  THEN Or(LastSrcsetEntry(img.srcset), Or(dataSrcOf(img, b), Or(img.src, "")))
  ELSE Or(dataSrcOf(img, b), Or(img.src, ""))

\* if (targetUrl.startsWith('//')) targetUrl = 'https:' + targetUrl
addScheme(t) == IF StartsWith(t, "//") THEN "https:" \o t ELSE t

\* try { targetUrl = new URL(url).origin + targetUrl } catch {}
prepend(origin, t) == IF origin = NULL THEN t ELSE origin \o t

\* the root-relative branch
addOrigin(t, pageUrl) ==
  IF StartsWith(t, "/") /\ ~StartsWith(t, "//") THEN prepend(URLOrigin(pageUrl), t) ELSE t

\* /\.(jpg|jpeg|png|webp|avif)/i
isImgLower(low) == \E ext \in {".jpg", ".jpeg", ".png", ".webp", ".avif"} : Includes(low, ext)

isNotIconLower(low) == ~Includes(low, "icon") /\ ~Includes(low, "logo") /\ ~Includes(low, "svg")

isWanted(low) == isImgLower(low) /\ isNotIconLower(low)

\* the final test: the pushed URL, or "" when nothing is pushed
pushed(t) == IF StartsWith(t, "http") /\ isWanted(ToLowerCase(t)) THEN t ELSE ""

\* the body of `if (targetUrl) { ... }`
resolveTarget(t, pageUrl) == IF Truthy(t) THEN pushed(addOrigin(addScheme(t), pageUrl)) ELSE ""

\* the forEach body over the img elements: the pushed URL, or "" when nothing is pushed
targetUrlOf(img, pageUrl, b) == resolveTarget(rawTargetOf(img, b), pageUrl)

potentialImagesOf(doc, pageUrl, b) ==
  ogCandidates(doc)
    \o Truthies([i \in 1..Len(doc.imgs) |-> targetUrlOf(doc.imgs[i], pageUrl, b)])

uniqueImagesOf(doc, pageUrl, b) ==
  Slice(Dedupe(potentialImagesOf(doc, pageUrl, b)), MaxCandidatesApp)

(* ------------------------------------------------------------------ *)
(* Inputs: the page URLs a user types and the documents a host serves  *)
(* ------------------------------------------------------------------ *)
UrlHttps == "https://shop.example/p/1"
UrlHttp  == "http://shop.example/p/1"

PageUrls == {UrlHttps, UrlHttp}

\* every value the URL field takes
UrlInputs == PageUrls \cup {""}

DocThree ==
  [og |-> NULL, sources |-> <<>>,
   imgs |-> <<ImgSrc("https://cdn.example/a.jpg"),
              ImgSrc("https://cdn.example/b.png"),
              ImgSrc("https://cdn.example/c.webp")>>]

DocOgOnly == [og |-> "https://cdn.example/hero.jpg", sources |-> <<>>, imgs |-> <<>>]

DocSvgImgs ==
  [og |-> NULL, sources |-> <<"/art/wide.svg 2x">>,
   imgs |-> <<ImgSrc("/art/mark.svg"), ImgSrc("https://cdn.example/Plan.SVG")>>]

DocSvgOg ==
  [og |-> "https://cdn.example/hero.svg", sources |-> <<>>,
   imgs |-> <<ImgSrc("/art/mark.svg")>>]

DocEmpty == [og |-> NULL, sources |-> <<NULL>>, imgs |-> <<ImgSrc(NULL)>>]

DocGallery ==
  [og |-> "/og/cover.jpg",
   sources |-> <<"a.jpg 100w, b.jpg 800w">>,
   imgs |-> <<ImgSrc("//cdn.example/shot1.jpg"),
              Img("/img/placeholder.png", "/img/lazy.png", NULL, NULL, NULL, NULL),
              ImgSrc("/img/Logo.png"),
              Img("/img/s.jpg", NULL, NULL, NULL, NULL, "/img/s-small.jpg 1x, /img/s-large.jpg 2x"),
              ImgSrc("/static/icon-cart.png"),
              ImgSrc("/img/vector.svg"),
              ImgSrc("https://shop.example/og/cover.jpg"),
              Img("/img/t-fallback.jpg", NULL, NULL, NULL, NULL, "/img/t.jpg 1x,"),
              ImgSrc("/img/extra.webp"),
              ImgSrc("/img/more.avif")>>]

\* one image referenced root-relative and in absolute form
DocDup ==
  [og |-> NULL, sources |-> <<>>,
   imgs |-> <<ImgSrc("/img/a.jpg"), ImgSrc("https://shop.example/img/a.jpg")>>]

\* source-sets that end in a comma, on a <source> and on an <img> that has a src
DocTrailing ==
  [og |-> NULL, sources |-> <<"/img/w.jpg 1x,">>,
   imgs |-> <<Img("/img/t-fallback.jpg", NULL, NULL, NULL, NULL, "/img/t.jpg 1x,")>>]

Docs == {DocThree, DocOgOnly, DocSvgImgs, DocSvgOg, DocEmpty, DocGallery, DocDup, DocTrailing}

(* ------------------------------------------------------------------ *)
(* The network-indirection capability (corsproxy.io through fetch)     *)
(* ------------------------------------------------------------------ *)
Unreserved == LowerChars \o UpperChars \o "0123456789-_.!~*'()"

PercentOf(c) ==
  CASE c = ":" -> "%3A" [] c = "/" -> "%2F" [] c = "?" -> "%3F" [] c = "#" -> "%23"
    [] c = "=" -> "%3D" [] c = "&" -> "%26" [] c = " " -> "%20" [] c = "," -> "%2C"
    [] c = "+" -> "%2B" [] c = ";" -> "%3B" [] OTHER -> c

RECURSIVE encodeURIComponent(_)
encodeURIComponent(s) ==
  IF s = "" THEN ""
  ELSE LET c == CharAt(s, 1)
       IN (IF \E i \in 1..Len(Unreserved) : CharAt(Unreserved, i) = c THEN c ELSE PercentOf(c))
            \o encodeURIComponent(Tail(s))

proxyUrlOf(u) == "https://corsproxy.io/?" \o encodeURIComponent(u)

\* content types a host may answer with
ServedTypes == {"image/jpeg", "image/png", "image/svg+xml", "text/html"}

\* what one proxied asset fetch can do:
\*   reject    : fetch() rejects (transport error)
\*   status    : a response with ok = false
\*   blobError : response.blob() rejects
\*   blob      : a Blob of the given type; read says whether FileReader can read it
AssetOutcomes ==
  {[kind |-> k, type |-> "", read |-> ""] : k \in {"reject", "status", "blobError"}}
    \cup {[kind |-> "blob", type |-> t, read |-> r] : t \in ServedTypes, r \in {"ok", "error"}}

\* the base64 text of the bytes served at u: one opaque text per URL (base64 text holds
\* no ",", and no URL of the documents above does)
bodyBase64(u) == "b64:" \o u

\* FileReader.readAsDataURL result for the blob served at u
dataUrlOf(u, type) == "data:" \o type \o ";base64," \o bodyBase64(u)

\* the state of one candidate's promise
Pending == [st |-> "pending"]
\* resolved with null
NoAsset == [st |-> "null"]
\* the FileReader callback threw; the promise is left unsettled for good
Stuck   == [st |-> "stuck"]
Asset(u, b64, mime) == [st |-> "asset", url |-> u, base64 |-> b64, mimeType |-> mime]

Settled(t) == t.st \in {"asset", "null"}

supportedMimes == {"image/jpeg", "image/png", "image/webp", "image/heic", "image/heif", "image/avif"}

\* src/index.tsx fetchAssetAsBase64: the value its promise settles with
fetchAssetAsBase64(u, o) ==
  IF o.kind \in {"reject", "status", "blobError"} THEN NoAsset
  ELSE IF Includes(o.type, "svg") \/ o.type \notin supportedMimes THEN NoAsset
  ELSE IF o.read = "ok" THEN Asset(u, Split(dataUrlOf(u, o.type), ",")[2], o.type)
  ELSE Stuck

\* services imageToBase64: "ok" with the base64 text, "throw", or "stuck".
\* geminiService.ts has reader.onerror (error fires before loadend); part_002 has not.
imageToBase64(u, o, b) ==
  IF o.kind \in {"reject", "status", "blobError"} THEN [st |-> "throw", base64 |-> ""]
  ELSE IF o.read = "ok" THEN [st |-> "ok", base64 |-> Split(dataUrlOf(u, o.type), ",")[2]]
  ELSE IF b = "App" THEN [st |-> "throw", base64 |-> ""]
  ELSE [st |-> "stuck", base64 |-> ""]

\* the async callback mapped over uniqueImages in App.tsx / part_005
wrapEncoded(u, r) ==
  IF r.st = "ok" THEN Asset(u, r.base64, UNDEFINED)
  ELSE IF r.st = "throw" THEN NoAsset
  ELSE Stuck

encodeImage(u, o, b) == wrapEncoded(u, imageToBase64(u, o, b))

\* the promise of candidate u under outcome o in build b
taskResult(u, o, b) == IF b = "index" THEN fetchAssetAsBase64(u, o) ELSE encodeImage(u, o, b)

\* a fetcher that collects the assets last-in first, not by position
validOfReversed(ts) ==
  [k \in 1..Cardinality({i \in 1..Len(ts) : ts[i].st = "asset"}) |->
     FilterIdx(ts, {i \in 1..Len(ts) : ts[i].st = "asset"})
       [Cardinality({i \in 1..Len(ts) : ts[i].st = "asset"}) + 1 - k]]

\* a fetcher that gives up on every asset as soon as one candidate fails
validOfAllOrNothing(ts) ==
  IF \E i \in 1..Len(ts) : ts[i].st # "asset" THEN <<>>
  ELSE FilterIdx(ts, {i \in 1..Len(ts) : ts[i].st = "asset"})

\* assetResults.filter(a => a !== null), once every promise has settled
validOf(ts) == FilterIdx(ts, {i \in 1..Len(ts) : ts[i].st = "asset"})

(* ------------------------------------------------------------------ *)
(* The analysis capability (ai.models.generateContent) and JSON.parse  *)
(* ------------------------------------------------------------------ *)
MaxAiImages == 3

EmptyObject  == "{}"
SummaryValue == "{brandConsistency:80}"

\* the JSON values a response text may denote: null, or an object that has or
\* lacks the fields images (n records) and summary
JsonNull == [isNull |-> TRUE, hasImages |-> FALSE, n |-> 0, hasSummary |-> FALSE]

JsonValues ==
  {JsonNull} \cup
  {v \in {[isNull |-> FALSE, hasImages |-> hi, n |-> n, hasSummary |-> hs] :
            hi \in BOOLEAN, n \in 0..MaxAiImages, hs \in BOOLEAN} :
     v.hasImages \/ v.n = 0}

aiImage(i) == [id |-> "img" \o ToString(i)]

\* parsed.images, where present
imagesOf(v) == [i \in 1..v.n |-> aiImage(i)]

RECURSIVE JoinItems(_, _)
JoinItems(n, k) ==
  IF k > n THEN ""
  ELSE "{\"id\":\"" \o aiImage(k).id \o "\"}" \o (IF k < n THEN "," ELSE "") \o JoinItems(n, k + 1)

\* JSON.stringify of a value of JsonValues
Stringify(v) ==
  IF v.isNull THEN "null"
  ELSE LET im == IF v.hasImages THEN "\"images\":[" \o JoinItems(v.n, 1) \o "]" ELSE ""
           su == IF v.hasSummary THEN "\"summary\":{\"brandConsistency\":80}" ELSE ""
       IN "{" \o im \o (IF v.hasImages /\ v.hasSummary THEN "," ELSE "") \o su \o "}"

\* JSON.parse: the value whose text this is; ok is FALSE when it throws SyntaxError
JsonTexts == {<<Stringify(v), v>> : v \in JsonValues}

JSONParse(text) ==
  IF \E p \in JsonTexts : p[1] = text
  THEN [ok |-> TRUE, value |-> (CHOOSE p \in JsonTexts : p[1] = text)[2]]
  ELSE [ok |-> FALSE, value |-> JsonNull]

\* response.text: absent, empty, prose, or the text of a JSON value
ResponseTexts ==
  {UNDEFINED, "", "Sorry, I cannot help with that."}
    \cup {p[1] : p \in JsonTexts}

\* what the one generateContent call can do: reject, or answer with a text
AiOutcomes ==
  {[kind |-> "reject", text |-> UNDEFINED]}
    \cup {[kind |-> "text", text |-> t] : t \in ResponseTexts}

MsgApiError    == "ApiError: the request was rejected"
MsgSyntaxError == "Unexpected token in JSON"
MsgTypeError   == "Cannot read properties of null (reading 'images')"
MsgFetchFailed == "Failed to fetch"
MsgInvalidUrl  == "Invalid URL"

\* the request handed to generateContent: one inline part per asset, then the prompt
aiRequest(assets, pageUrl, b) ==
  [parts  |-> [i \in 1..Len(assets) |->
                 [data     |-> assets[i].base64,
                  mimeType |-> IF b = "index" THEN assets[i].mimeType ELSE "image/jpeg"]],
   prompt |-> pageUrl]

NoResult == [isNull |-> TRUE]

\* a reconciler that pairs record idx with the asset after it
urlAtShifted(assets, idx) == IF idx < Len(assets) THEN assets[idx + 1].url ELSE UNDEFINED

\* validAssets[idx]?.f for a field f, UNDEFINED past the end
urlAt(assets, idx)      == IF idx <= Len(assets) THEN assets[idx].url ELSE UNDEFINED
\* a payload lookup that is one position late
base64AtShifted(assets, idx) == IF idx < Len(assets) THEN assets[idx + 1].base64 ELSE UNDEFINED

base64At(assets, idx)   == IF idx <= Len(assets) THEN assets[idx].base64 ELSE UNDEFINED
mimeTypeAt(assets, idx) == IF idx <= Len(assets) THEN assets[idx].mimeType ELSE UNDEFINED

Thrown(msg) == [ok |-> FALSE, message |-> msg, value |-> NoResult]
Returned(v) == [ok |-> TRUE, message |-> "", value |-> v]

\* (parsed.images || [])
imagesOrEmpty(v) == IF v.hasImages THEN imagesOf(v) ELSE <<>>

\* src/index.tsx: finalImages
finalImagesOf(imgs, assets) ==
  [i \in 1..Len(imgs) |->
     [id       |-> imgs[i].id,
      url      |-> Or(urlAt(assets, i), ""),
      base64   |-> base64At(assets, i),
      mimeType |-> mimeTypeAt(assets, i)]]

\* src/index.tsx: the argument of setResult for the parsed value v
resultInline(pageUrl, assets, v) ==
  [url     |-> pageUrl,
   images  |-> finalImagesOf(imagesOrEmpty(v), assets),
   summary |-> IF v.hasSummary THEN SummaryValue ELSE UNDEFINED]

\* src/index.tsx: what follows JSON.parse, given its outcome p
afterParseInline(pageUrl, assets, p) ==
  IF ~p.ok THEN Thrown(MsgSyntaxError)
  ELSE IF p.value.isNull THEN Thrown(MsgTypeError)
  ELSE Returned(resultInline(pageUrl, assets, p.value))

\* src/index.tsx, from `if (!response.text)` to setResult: ok with the result, or the
\* message of the error thrown
analyzeInline(pageUrl, assets, o) ==
  IF o.kind = "reject" THEN Thrown(MsgApiError)
  ELSE IF ~Truthy(o.text) THEN Thrown("AI engine failure.")
  ELSE afterParseInline(pageUrl, assets, JSONParse(o.text))

\* "AI Analysis Error: " in geminiService.ts, "AI Analysis Failed: " in part_002
analysisErrorPrefix(b) == IF b = "App" THEN "AI Analysis Error: " ELSE "AI Analysis Failed: "

\* services: analyzedImages
analyzedImagesOf(imgs, images) ==
  [i \in 1..Len(imgs) |-> [id |-> imgs[i].id, url |-> Or(urlAt(images, i), "")]]

\* services: the value analyzeProductPage returns for the parsed value v
resultService(pageUrl, images, v) ==
  [url     |-> pageUrl,
   images  |-> analyzedImagesOf(imagesOrEmpty(v), images),
   summary |-> IF v.hasSummary THEN SummaryValue ELSE EmptyObject]

\* services: what follows JSON.parse, given its outcome p
afterParseService(pageUrl, images, p, b) ==
  IF ~p.ok THEN Thrown(analysisErrorPrefix(b) \o MsgSyntaxError)
  ELSE IF p.value.isNull THEN Thrown(analysisErrorPrefix(b) \o MsgTypeError)
  ELSE Returned(resultService(pageUrl, images, p.value))

\* services analyzeProductPage, from the await of generateContent on
analyzeProductPage(pageUrl, images, o, b) ==
  IF o.kind = "reject" THEN Thrown(analysisErrorPrefix(b) \o MsgApiError)
  ELSE afterParseService(pageUrl, images, JSONParse(Or(o.text, "{}")), b)

\* App.tsx / part_005: finalResult built from analysisResult
finalResultOf(analysisResult, validImages) ==
  [url     |-> analysisResult.url,
   images  |-> [i \in 1..Len(analysisResult.images) |->
                  [id       |-> analysisResult.images[i].id,
                   url      |-> analysisResult.images[i].url,
                   base64   |-> base64At(validImages, i),
                   mimeType |-> UNDEFINED]],
   summary |-> analysisResult.summary]

\* App.tsx / part_005: the await of analyzeProductPage and what follows it
afterService(r, validImages) ==
  IF r.ok THEN Returned(finalResultOf(r.value, validImages)) ELSE r

\* the outcome of the analysis step of handleAnalyze in build b
analysisOf(pageUrl, assets, o, b) ==
  IF b = "index" THEN analyzeInline(pageUrl, assets, o)
  ELSE afterService(analyzeProductPage(pageUrl, assets, o, b), assets)

(* ------------------------------------------------------------------ *)
(* Messages and status texts of the three builds                       *)
(* ------------------------------------------------------------------ *)
Builds == {"index", "App", "part"}

msgNoCandidates(b) ==
  CASE b = "index" -> "No compatible product images (JPEG/PNG/WebP) detected. The site might be using SVGs only or blocking access."
    [] b = "App"   -> "No displayable images found."
    [] OTHER       -> "Target site is aggressively blocking standard crawlers."

msgNoUsable(b) ==
  CASE b = "index" -> "Could not extract supported image data. SVGs were detected but are incompatible with the audit engine."
    [] b = "App"   -> "Asset Lockdown: Proxy blocked image access."
    [] OTHER       -> "CORS Barrier: Site security settings prevent image extraction."

\* what one proxied markup fetch can do: reject, answer with ok = false, or answer
\* with the markup of a document
HtmlOutcomes ==
  {[kind |-> "reject", status |-> 0, doc |-> DocEmpty],
   [kind |-> "status", status |-> 403, doc |-> DocEmpty]}
    \cup {[kind |-> "ok", status |-> 200, doc |-> d] : d \in Docs}

\* proxyFetchHtml: the message of the error it throws for a failed fetch
proxyFetchHtmlError(o, b) ==
  CASE b = "index" -> IF o.kind = "status"
                      THEN "Target site is unreachable or blocking the audit proxy."
                      ELSE MsgFetchFailed
    [] b = "App"   -> "Connection Blocked: The target site may be blocking remote access."
    [] OTHER       -> "Proxy connection failed. The target site may have robust CORS protection."

statusStart(b) ==
  CASE b = "index" -> "Accessing domain..."
    [] b = "App"   -> "Deep scanning page structure..."
    [] OTHER       -> "Initiating secure proxy tunnel..."

statusEncoding(b, n) ==
  CASE b = "index" -> "Encoding design patterns..."
    [] b = "App"   -> "Encoding " \o ToString(n) \o " images for AI..."
    [] OTHER       -> "Decoding " \o ToString(n) \o " assets for AI context..."

statusAuditing(b) ==
  CASE b = "index" -> "Gemini AI is auditing design..."
    [] b = "App"   -> "Gemini AI generating visual audit..."
    [] OTHER       -> "Gemini AI is generating audit..."

\* the resolved candidate sequence of build b for a parsed document
resolveCandidates(d, pageUrl, b) ==
  IF b = "index" THEN resolvedUrlsOf(candidatesOf(d), URLOrigin(pageUrl))
  ELSE uniqueImagesOf(d, pageUrl, b)

(* ------------------------------------------------------------------ *)
(* State                                                               *)
(* ------------------------------------------------------------------ *)
MaxAudits == 2

VARIABLES
  build,        \* which build runs
  url,          \* useState: the URL field
  loading,      \* useState
  error,        \* useState: NULL or a message
  result,       \* useState: NoResult or an AnalysisResult
  statusText,   \* useState
  pc,           \* where the running handleAnalyze is suspended:
                \*   "idle" (none running), "html", "assets", "ai"
  auditUrl,     \* the url the running handleAnalyze closed over
  doc,          \* its parsed document
  resolvedUrls, \* its candidate sequence (resolvedUrls / uniqueImages)
  tasks,        \* the promise of each candidate, by position
  validAssets,  \* validAssets / validImages, once the join has passed
  fetchLog,     \* every proxy URL fetch() was called with during this audit
  aiLog,        \* every request generateContent was called with during this audit
  response,     \* what that call answered, once it has
  reordered,    \* some candidate settled while an earlier one was still pending
  audits        \* audits started so far

vars == <<build, url, loading, error, result, statusText, pc, auditUrl, doc,
          resolvedUrls, tasks, validAssets, fetchLog, aiLog, response, reordered, audits>>

uiVars  == <<url, loading, error, result, statusText>>
runVars == <<pc, auditUrl, doc, resolvedUrls, tasks, validAssets, fetchLog, aiLog, response,
            reordered, audits>>

NoDoc == [og |-> NULL, sources |-> <<>>, imgs |-> <<>>]

NoResponse == [kind |-> "none", text |-> UNDEFINED]

Init ==
  /\ build \in Builds
  /\ url = ""
  /\ loading = FALSE
  /\ error = NULL
  /\ result = NoResult
  /\ statusText = ""
  /\ pc = "idle"
  /\ auditUrl = ""
  /\ doc = NoDoc
  /\ resolvedUrls = <<>>
  /\ tasks = <<>>
  /\ validAssets = <<>>
  /\ fetchLog = <<>>
  /\ aiLog = <<>>
  /\ response = NoResponse
  /\ reordered = FALSE
  /\ audits = 0

(* ------------------------------------------------------------------ *)
(* handleAnalyze, cut at its awaits                                    *)
(* ------------------------------------------------------------------ *)
\* a catch that starts the audit over from the markup fetch
FailAndRestart(msg) ==
  /\ error' = msg
  /\ loading' = FALSE
  /\ statusText' = ""
  /\ pc' = "html"

\* catch { setError(err.message) } finally { setLoading(false); setStatusText('') }
Fail(msg) ==
  /\ error' = msg
  /\ loading' = FALSE
  /\ statusText' = ""
  /\ pc' = "idle"

\* a start that clears the error and keeps the previous result on screen
clearErrorOnly ==
  /\ error' = NULL
  /\ UNCHANGED result

\* a start that clears the result and keeps the previous error on screen
clearResultOnly ==
  /\ result' = NoResult
  /\ UNCHANGED error

\* setError(null); setResult(null)
clearOutcome ==
  /\ error' = NULL
  /\ result' = NoResult

\* a handler without the `if (!url) return` of its first line
handleAnalyzeUnguarded ==
  /\ audits < MaxAudits
  /\ audits' = audits + 1
  /\ auditUrl' = url
  /\ doc' = NoDoc
  /\ resolvedUrls' = <<>>
  /\ tasks' = <<>>
  /\ validAssets' = <<>>
  /\ aiLog' = <<>>
  /\ response' = NoResponse
  /\ reordered' = FALSE
  /\ UNCHANGED <<build, url>>
  /\ IF build = "index" /\ URLOrigin(url) = NULL
     THEN \* new URL(url) throws inside the try, before any fetch
          /\ Fail(MsgInvalidUrl)
          /\ result' = NoResult
          /\ fetchLog' = <<>>
     ELSE /\ loading' = TRUE
          /\ clearOutcome
          /\ statusText' = statusStart(build)
          /\ fetchLog' = <<proxyUrlOf(url)>>
          /\ pc' = "html"

\* from the call to the first await (the fetch of the markup)
handleAnalyze ==
  IF ~Truthy(url) THEN UNCHANGED vars
  ELSE /\ audits < MaxAudits
       /\ audits' = audits + 1
       /\ auditUrl' = url
       /\ doc' = NoDoc
       /\ resolvedUrls' = <<>>
       /\ tasks' = <<>>
       /\ validAssets' = <<>>
       /\ aiLog' = <<>>
       /\ response' = NoResponse
       /\ reordered' = FALSE
       /\ UNCHANGED <<build, url>>
       /\ IF build = "index" /\ URLOrigin(url) = NULL
          THEN \* new URL(url) throws inside the try, before any fetch
               /\ Fail(MsgInvalidUrl)
               /\ result' = NoResult
               /\ fetchLog' = <<>>
          ELSE /\ loading' = TRUE
               /\ clearOutcome
               /\ statusText' = statusStart(build)
               /\ fetchLog' = <<proxyUrlOf(url)>>
               /\ pc' = "html"

\* the candidates are resolved: stop without any, else start one fetch per candidate
fetchAll(resolved) ==
  IF Len(resolved) = 0
  THEN /\ Fail(msgNoCandidates(build))
       /\ UNCHANGED <<resolvedUrls, tasks, fetchLog>>
  ELSE /\ resolvedUrls' = resolved
       /\ tasks' = [i \in 1..Len(resolved) |-> Pending]
       /\ fetchLog' = fetchLog \o [i \in 1..Len(resolved) |-> proxyUrlOf(resolved[i])]
       /\ statusText' = statusEncoding(build, Len(resolved))
       /\ pc' = "assets"
       /\ UNCHANGED <<loading, error>>

\* the markup fetch settles: parse, extract, resolve, and start one fetch per candidate
HtmlSettles(o) ==
  /\ pc = "html"
  /\ UNCHANGED <<build, url, result, auditUrl, validAssets, aiLog, response, reordered, audits>>
  /\ IF o.kind # "ok"
     THEN /\ Fail(proxyFetchHtmlError(o, build))
          /\ UNCHANGED <<doc, resolvedUrls, tasks, fetchLog>>
     ELSE /\ doc' = o.doc
          /\ fetchAll(resolveCandidates(o.doc, auditUrl, build))

\* the promise of candidate i takes the state t
settle(i, t) ==
  /\ tasks' = [tasks EXCEPT ![i] = t]
  /\ reordered' = (reordered \/ (Settled(t) /\ \E j \in 1..(i - 1) : tasks[j] = Pending))

\* the fetch of candidate i runs to its end
AssetSettles(i, o) ==
  /\ pc = "assets"
  /\ i \in 1..Len(tasks)
  /\ tasks[i] = Pending
  /\ settle(i, taskResult(resolvedUrls[i], o, build))
  /\ UNCHANGED <<uiVars, build, pc, auditUrl, doc, resolvedUrls, validAssets, fetchLog, aiLog,
                 response, audits>>

\* a join that goes on as soon as one promise is fulfilled (a race)
joinReadyAny(ts) == \E i \in 1..Len(ts) : Settled(ts[i])

\* Promise.all(tasks) is fulfilled once every promise is
joinReady(ts) == \A i \in 1..Len(ts) : Settled(ts[i])

\* a pipeline that sends the analysis request a second time
analyzeTwice(assets) ==
  /\ validAssets' = assets
  /\ IF Len(assets) = 0
     THEN /\ Fail(msgNoUsable(build))
          /\ UNCHANGED aiLog
     ELSE /\ statusText' = statusAuditing(build)
          /\ aiLog' = aiLog \o <<aiRequest(assets, auditUrl, build),
                                 aiRequest(assets, auditUrl, build)>>
          /\ pc' = "ai"
          /\ UNCHANGED <<loading, error>>

\* a pipeline that calls the analysis capability whatever the asset count
analyzeUnchecked(assets) ==
  /\ validAssets' = assets
  /\ statusText' = statusAuditing(build)
  /\ aiLog' = Append(aiLog, aiRequest(assets, auditUrl, build))
  /\ pc' = "ai"
  /\ UNCHANGED <<loading, error>>

\* what follows the filter: stop without assets, else call the analysis capability
analyze(assets) ==
  /\ validAssets' = assets
  /\ IF Len(assets) = 0
     THEN /\ Fail(msgNoUsable(build))
          /\ UNCHANGED aiLog
     ELSE /\ statusText' = statusAuditing(build)
          /\ aiLog' = Append(aiLog, aiRequest(assets, auditUrl, build))
          /\ pc' = "ai"
          /\ UNCHANGED <<loading, error>>

\* the continuation of `await Promise.all(...)`: filter, then call the analysis capability
Join ==
  /\ pc = "assets"
  /\ joinReady(tasks)
  /\ analyze(validOf(tasks))
  /\ UNCHANGED <<build, url, result, auditUrl, doc, resolvedUrls, tasks, fetchLog, response,
                 reordered, audits>>

\* an end of handleAnalyze that reads the URL field as it is when the audit ends
finishWithFieldUrl(r) ==
  IF r.ok
  THEN /\ result' = [r.value EXCEPT !.url = url]
       /\ loading' = FALSE
       /\ statusText' = ""
       /\ pc' = "idle"
       /\ UNCHANGED error
  ELSE /\ Fail(r.message)
       /\ UNCHANGED result

\* the end of handleAnalyze: setResult, or the catch; then the finally
finish(r) ==
  IF r.ok
  THEN /\ result' = r.value
       /\ loading' = FALSE
       /\ statusText' = ""
       /\ pc' = "idle"
       /\ UNCHANGED error
  ELSE /\ Fail(r.message)
       /\ UNCHANGED result

\* generateContent settles: parse, reconcile, setResult
AiSettles(o) ==
  /\ pc = "ai"
  /\ finish(analysisOf(auditUrl, validAssets, o, build))
  /\ response' = o
  /\ UNCHANGED <<build, url, auditUrl, doc, resolvedUrls, tasks, validAssets, fetchLog, aiLog,
                 reordered, audits>>

(* ------------------------------------------------------------------ *)
(* The user                                                            *)
(* ------------------------------------------------------------------ *)
\* onChange of the URL field
SetUrl(u) ==
  /\ u # url
  /\ url' = u
  /\ UNCHANGED <<build, loading, error, result, statusText, runVars>>

\* <input type="url" required>: the form submits only a non-empty absolute URL
validUrlField(u) == Truthy(u) /\ SchemeLen(Trim(u)) > 0

\* a form whose submit button stays enabled while loading
SubmitWhileLoading ==
  /\ validUrlField(url)
  /\ handleAnalyze

\* onSubmit of the form; the submit button is disabled while loading
Submit ==
  /\ ~loading
  /\ validUrlField(url)
  /\ handleAnalyze

\* the retry button of the error panel (App.tsx, part_005) calls handleAnalyze
Retry ==
  /\ build \in {"App", "part"}
  /\ error # NULL
  /\ handleAnalyze

\* the clear button of the error panel (index.tsx, part_005)
Clear ==
  /\ build \in {"index", "part"}
  /\ error # NULL
  /\ url' = ""
  /\ error' = NULL
  /\ UNCHANGED <<build, loading, result, statusText, runVars>>

Next ==
  \/ \E u \in UrlInputs : SetUrl(u)
  \/ Submit
  \/ Retry
  \/ Clear
  \/ \E o \in HtmlOutcomes : HtmlSettles(o)
  \/ \E i \in 1..MaxCandidatesApp, o \in AssetOutcomes : AssetSettles(i, o)
  \/ Join
  \/ \E o \in AiOutcomes : AiSettles(o)

Spec == Init /\ [][Next]_vars

(* ------------------------------------------------------------------ *)
(* Properties                                                          *)
(* ------------------------------------------------------------------ *)
\* the positions of the candidates whose fetch produced an asset
assetIdx == {i \in 1..Len(tasks) : tasks[i].st = "asset"}

\* the k-th smallest member of a set of positions
Kth(S, k) == CHOOSE i \in S : Cardinality({j \in S : j < i}) = k - 1

\* the running or last audit has passed its join
joined == tasks # <<>> /\ pc # "assets"

\* C1: the assets handed to the analysis step list the surviving candidates in the
\* order of the candidate sequence, whatever the order their fetches completed in
C1_OrderPreserved ==
  joined =>
    /\ Len(validAssets) = Cardinality(assetIdx)
    /\ \A k \in 1..Len(validAssets) :
         /\ validAssets[k] = tasks[Kth(assetIdx, k)]
         /\ validAssets[k].url = resolvedUrls[Kth(assetIdx, k)]
    /\ \A r \in 1..Len(aiLog) :
         /\ Len(aiLog[r].parts) = Cardinality(assetIdx)
         /\ \A k \in 1..Len(aiLog[r].parts) :
              aiLog[r].parts[k].data = bodyBase64(resolvedUrls[Kth(assetIdx, k)])

\* three candidates all fetched, a later one completing before an earlier one, and the
\* analysis step called
C1_Witness ==
  /\ pc = "ai"
  /\ reordered
  /\ Len(resolvedUrls) = 3
  /\ Len(validAssets) = 3

\* C2: the analysis capability is never invoked while a candidate fetch of the audit is
\* unsettled, and the assets passed on are exactly those of the candidates that succeeded
C2_JoinAll ==
  /\ (pc = "ai" \/ aiLog # <<>> \/ validAssets # <<>>) =>
       \A i \in 1..Len(tasks) : tasks[i].st \in {"asset", "null"}
  /\ aiLog # <<>> =>
       /\ {validAssets[k] : k \in 1..Len(validAssets)} = {tasks[i] : i \in assetIdx}
       /\ Len(aiLog[1].parts) = Cardinality(assetIdx)

\* the analysis step is called after a first candidate failed and a last one, which
\* settled out of order, succeeded
C2_Witness ==
  /\ pc = "ai"
  /\ reordered
  /\ Len(tasks) >= 2
  /\ tasks[1] = NoAsset
  /\ tasks[Len(tasks)].st = "asset"

\* C3: when one of three candidates fails, the other two go on in their original order
\* and the audit reaches the analysis step with exactly those two
C3_OneOfThreeFails ==
  (joined /\ Len(tasks) = 3 /\ Cardinality(assetIdx) = 2
     /\ \E i \in 1..3 : tasks[i] = NoAsset) =>
    /\ error # msgNoUsable(build)
    /\ Len(aiLog) = 1
    /\ Len(aiLog[1].parts) = 2
    /\ \E a, b \in 1..3 :
         /\ a < b
         /\ assetIdx = {a, b}
         /\ validAssets = <<tasks[a], tasks[b]>>
         /\ validAssets[1].url = resolvedUrls[a]
         /\ validAssets[2].url = resolvedUrls[b]

\* the middle one of three candidates failed and the analysis step is running
C3_Witness ==
  /\ pc = "ai"
  /\ Len(tasks) = 3
  /\ tasks[2] = NoAsset
  /\ Len(validAssets) = 2
  /\ error = NULL

\* the per-candidate failure modes: a response that is not ok, a content type that is
\* not a supported raster type, a payload that cannot be read
FailureOutcomes ==
  {o \in AssetOutcomes :
     \/ o.kind \in {"status", "blobError"}
     \/ o.kind = "blob" /\ (o.type \notin supportedMimes \/ o.read = "error")}

\* C4: a candidate whose fetch ends in one of the failure modes settles with no asset
C4_FailureSettlesNoAsset ==
  [][\A i \in 1..Len(tasks) : \A o \in FailureOutcomes :
       (pc = "assets" /\ tasks[i] = Pending
          /\ tasks'[i] = taskResult(resolvedUrls[i], o, build))
         => tasks'[i] = NoAsset]_vars

violatesContract(text) ==
  \/ ~JSONParse(text).ok
  \/ JSONParse(text).value.isNull
  \/ ~JSONParse(text).value.hasImages
  \/ ~JSONParse(text).value.hasSummary

\* C6: a response whose text is not JSON or lacks images or summary yields no result
C6_ContractViolationRejected ==
  (response.kind = "text" /\ Truthy(response.text) /\ violatesContract(response.text))
    => result = NoResult

\* C7: a response without usable text yields no result
C7_NoTextRejected ==
  (response.kind = "text" /\ ~Truthy(response.text)) => result = NoResult

\* C8: whenever the error is set the result is null
C8_ErrorExcludesResult == error # NULL => result = NoResult

\* a second audit has failed at the analysis step
C8_Witness ==
  /\ error # NULL
  /\ audits = 2
  /\ pc = "idle"
  /\ response # NoResponse

\* the documents whose only images are .svg
SvgOnlyDocs == {DocSvgImgs, DocSvgOg}

\* C9: an audit whose candidate sequence is empty, as for a page of .svg images only,
\* issues no asset fetch and no analysis call
C9_NoCandidatesNoFetch ==
  (doc # NoDoc /\ (resolvedUrls = <<>> \/ doc \in SvgOnlyDocs)) =>
    /\ pc = "idle"
    /\ resolvedUrls = <<>>
    /\ tasks = <<>>
    /\ Len(fetchLog) = 1
    /\ aiLog = <<>>
    /\ result = NoResult

\* C10: when every candidate fetch fails the audit ends with the no-usable-assets error
\* and the analysis capability is never invoked
C10_NoUsableAssets ==
  /\ []((tasks # <<>> /\ \A i \in 1..Len(tasks) : tasks[i] = NoAsset) => aiLog = <<>>)
  /\ [][(pc = "assets" /\ pc' # "assets" /\ \A i \in 1..Len(tasks) : tasks[i] = NoAsset)
          => /\ pc' = "idle"
             /\ error' = msgNoUsable(build)
             /\ ~loading'
             /\ result' = NoResult
             /\ validAssets' = <<>>
             /\ aiLog' = <<>>]_vars

\* three candidates all failed and the audit has ended with the error
C10_Witness ==
  /\ pc = "idle"
  /\ Len(tasks) = 3
  /\ \A i \in 1..3 : tasks[i] = NoAsset
  /\ error = msgNoUsable(build)
  /\ aiLog = <<>>

\* C11: no two entries of the resolved candidate sequence are the same URL
C11_NoDuplicateCandidates ==
  \A i, j \in 1..Len(resolvedUrls) : i # j => resolvedUrls[i] # resolvedUrls[j]

\* a reference is a vector image or matches the icon/logo heuristic
isVectorOrIcon(u) ==
  \/ Includes(ToLowerCase(u), ".svg")
  \/ Includes(ToLowerCase(u), "image/svg+xml")
  \/ Includes(ToLowerCase(u), "icon")
  \/ Includes(ToLowerCase(u), "logo")

\* C12: no entry of the resolved candidate sequence is a vector image or matches the
\* icon/logo heuristic, so no such URL is fetched
C12_NoVectorOrIconCandidates ==
  /\ \A i \in 1..Len(resolvedUrls) : ~isVectorOrIcon(resolvedUrls[i])
  /\ \A i \in 2..Len(fetchLog) : ~Includes(ToLowerCase(fetchLog[i]), ".svg")

\* the cap of build b
capOf(b) == IF b = "index" THEN MaxCandidatesIndex ELSE MaxCandidatesApp

\* the eligible URLs of a document in order of first occurrence, before truncation
eligibleOf(d, pageUrl, b) ==
  IF b = "index"
  THEN filterResolved(mapResolved(Dedupe(candidatesOf(d)), URLOrigin(pageUrl)))
  ELSE Dedupe(potentialImagesOf(d, pageUrl, b))

\* xs is the first n elements of e, or all of e when it has fewer
isCappedPrefix(xs, e, n) ==
  /\ Len(xs) = (IF Len(e) < n THEN Len(e) ELSE n)
  /\ \A i \in 1..Len(xs) : xs[i] = e[i]

\* the fetches of the candidates have just been started
fetchesStarted == pc = "assets" /\ \A i \in 1..Len(tasks) : tasks[i] = Pending

\* C13: the candidate sequence is the first N eligible URLs in order of first
\* occurrence, N the cap, and at most N fetch tasks exist for one audit
C13_TruncatedAtCap ==
  /\ Len(resolvedUrls) <= capOf(build)
  /\ Len(tasks) <= capOf(build)
  /\ Len(fetchLog) <= 1 + capOf(build)
  /\ fetchesStarted =>
       isCappedPrefix(resolvedUrls, eligibleOf(doc, auditUrl, build), capOf(build))

\* a page with more eligible URLs than the cap, its fetches started
C13_Witness ==
  /\ fetchesStarted
  /\ Len(eligibleOf(doc, auditUrl, build)) > capOf(build)
  /\ Len(tasks) = capOf(build)

\* C14: within one audit the markup is fetched at most once, each candidate is fetched
\* at most once and the analysis capability is called at most once
C14_NoRetry ==
  /\ Len(fetchLog) <= 1 + Len(tasks)
  /\ \A i \in 2..Len(fetchLog) : fetchLog[i] # fetchLog[1]
  /\ Len(tasks) = Len(resolvedUrls)
  /\ fetchesStarted =>
       \A i \in 1..Len(resolvedUrls) : fetchLog[i + 1] = proxyUrlOf(resolvedUrls[i])
  /\ Len(aiLog) <= 1

\* an audit that lost a candidate and whose analysis call was rejected has ended
C14_Witness ==
  /\ pc = "idle"
  /\ error # NULL
  /\ response.kind = "reject"
  /\ \E i \in 1..Len(tasks) : tasks[i] = NoAsset
  /\ Len(fetchLog) = 1 + Len(tasks)
  /\ Len(aiLog) = 1

\* the position of a stage in the pipeline; "idle" is before the first and after the last
rankOf(p) ==
  CASE p = "html"   -> 1
    [] p = "assets" -> 4
    [] p = "ai"     -> 5
    [] OTHER        -> 7

\* what each stage finds done and not yet done when it runs
stageOrder ==
  /\ pc = "html" =>
       /\ doc = NoDoc /\ resolvedUrls = <<>> /\ tasks = <<>> /\ validAssets = <<>>
       /\ aiLog = <<>> /\ response = NoResponse /\ result = NoResult
  /\ pc = "assets" =>
       /\ doc # NoDoc /\ resolvedUrls # <<>> /\ Len(tasks) = Len(resolvedUrls)
       /\ validAssets = <<>>
       /\ aiLog = <<>> /\ response = NoResponse /\ result = NoResult
  /\ pc = "ai" =>
       /\ doc # NoDoc /\ resolvedUrls # <<>>
       /\ \A i \in 1..Len(tasks) : tasks[i].st \in {"asset", "null"}
       /\ validAssets # <<>>
       /\ Len(aiLog) = 1 /\ response = NoResponse /\ result = NoResult

C16_AssetTypeValidated ==
  [][\A i \in 1..Len(tasks) : \A o \in AssetOutcomes :
       (pc = "assets" /\ tasks[i] = Pending
          /\ tasks'[i] = taskResult(resolvedUrls[i], o, build)
          /\ tasks'[i].st = "asset")
         => /\ o.type \in supportedMimes
            /\ aiRequest(<<tasks'[i]>>, auditUrl, build).parts[1].mimeType = o.type]_vars

\* C17: a markup fetch that answers with a non-success status, or that fails in
\* transport, ends the audit with an error, and the error of a non-success status
\* carries the status code
C17_RetrievalBlockedCarriesStatus ==
  [][\A o \in HtmlOutcomes :
       (pc = "html" /\ o.kind \in {"status", "reject"}
          /\ pc' = "idle" /\ error' = proxyFetchHtmlError(o, build))
         => /\ error' # NULL
            /\ result' = NoResult
            /\ o.kind = "status" => Includes(error', ToString(o.status))]_vars

\* a page with an og:image metadata tag and no <img> or <source> element
ogOnly(d) == Truthy(d.og) /\ d.imgs = <<>> /\ d.sources = <<>>

\* the audit of an og:image-only page has fetched its candidate and has ended
ogOnlyFetchedAndEnded ==
  /\ ogOnly(doc)
  /\ pc = "idle"
  /\ Len(tasks) = 1
  /\ tasks[1].st = "asset"

\* C19 as stated: an og:image-only page yields one candidate, and if that candidate is
\* fetched the audit produces a result with exactly one image record
C19_OgOnlyOneRecord ==
  /\ ogOnly(doc) => Len(resolvedUrls) = 1
  /\ ogOnlyFetchedAndEnded => (result # NoResult /\ Len(result.images) = 1)

\* the response is the text of a JSON object with exactly one image record
describesOneImage(r) ==
  /\ r.kind = "text"
  /\ Truthy(r.text)
  /\ JSONParse(r.text).ok
  /\ JSONParse(r.text).value.hasImages
  /\ JSONParse(r.text).value.n = 1

\* C19 amended: an og:image-only page yields one candidate, and if that candidate is
\* fetched and the analysis response describes one image, the audit produces a result
\* with exactly one image record, which carries the candidate's URL
C19_OgOnlyOneRecordAmended ==
  /\ ogOnly(doc) => Len(resolvedUrls) = 1
  /\ (ogOnlyFetchedAndEnded /\ describesOneImage(response)) =>
       /\ result # NoResult
       /\ Len(result.images) = 1
       /\ result.images[1].url = resolvedUrls[1]
       /\ result.images[1].base64 = bodyBase64(resolvedUrls[1])

\* the audit of an og:image-only page has ended with a result of one image record
C19_Witness ==
  /\ ogOnlyFetchedAndEnded
  /\ describesOneImage(response)
  /\ result # NoResult
  /\ Len(result.images) = 1
  /\ result.images[1].url = doc.og

\* the URLs named by a srcset attribute
srcsetEntries(s) ==
  IF Truthy(s)
  THEN {firstTokens(Split(s, ","))[i] : i \in 1..Len(Split(s, ","))}
  ELSE {}

\* every raw reference of a document
rawRefsOf(d) ==
  {r \in {d.og}
          \cup UNION {srcsetEntries(d.sources[i]) : i \in 1..Len(d.sources)}
          \cup UNION {{d.imgs[i].src, d.imgs[i].dataSrc, d.imgs[i].dataZoomSrc,
                       d.imgs[i].dataLazySrc, d.imgs[i].dataOriginal}
                        \cup srcsetEntries(d.imgs[i].srcset) : i \in 1..Len(d.imgs)} :
     Truthy(r)}

\* u is the protocol-relative reference r under a scheme other than the page's
wrongScheme(u, r, pageUrl) ==
  \E s \in {"http", "https"} : u = s \o ":" \o r /\ s # SchemeOf(pageUrl)

\* C20: a root-relative reference gains the page's origin and a protocol-relative
\* reference the page's scheme: every candidate is an absolute http(s) URL, none is a
\* root-relative reference left as it was written, and none is a protocol-relative
\* reference of the page under the other scheme
C20_RelativeRefsResolved ==
  fetchesStarted =>
    \A i \in 1..Len(resolvedUrls) :
      /\ StartsWith(resolvedUrls[i], "http://") \/ StartsWith(resolvedUrls[i], "https://")
      /\ \A r \in rawRefsOf(doc) :
           /\ (StartsWith(r, "/") /\ ~StartsWith(r, "//")) => resolvedUrls[i] # r
           /\ StartsWith(r, "//") => ~wrongScheme(resolvedUrls[i], r, auditUrl)

\* the last listed entry of a srcset attribute: the URL of what follows its last comma
lastListed(s) == Split(Trim(Split(s, ",")[Len(Split(s, ","))]), " ")[1]

\* what the extractor is to produce before the image elements: the og:image value, if
\* present, then the last listed entry of every source-set in document order
expectedHead(d) ==
  (IF Truthy(d.og) THEN <<d.og>> ELSE <<>>)
    \o [k \in 1..Len(Truthies(d.sources)) |-> lastListed(Truthies(d.sources)[k])]

\* the sequence the extractor of build b appends to for a document
extracted(d, pageUrl, b) ==
  IF b = "index" THEN candidatesOf(d) ELSE potentialImagesOf(d, pageUrl, b)

\* the reference one image element contributes in build b, "" or NULL when none
contributed(img, pageUrl, b) ==
  IF b = "index" THEN foundUrl(img) ELSE targetUrlOf(img, pageUrl, b)

RECURSIVE IsSubSeq(_, _)
\* xs can be had from ys by leaving elements out
IsSubSeq(xs, ys) ==
  IF xs = <<>> THEN TRUE
  ELSE IF ys = <<>> THEN FALSE
  ELSE IF Head(xs) = Head(ys) THEN IsSubSeq(Tail(xs), Tail(ys))
  ELSE IsSubSeq(xs, Tail(ys))

\* xs is head followed by at most one reference per image element, in document order
inPriorityOrder(xs, head, d, pageUrl, b) ==
  /\ Len(xs) >= Len(head)
  /\ SubSeq(xs, 1, Len(head)) = head
  /\ IsSubSeq(SubSeq(xs, Len(head) + 1, Len(xs)),
              [i \in 1..Len(d.imgs) |-> contributed(d.imgs[i], pageUrl, b)])

\* the markup has just been parsed and its candidates extracted
justExtracted == doc # NoDoc /\ \A i \in 1..Len(tasks) : tasks[i] = Pending

\* C21: the extractor appends the og:image value first, then the last entry of every
\* source element's source-set in document order, then one reference per image
\* element in document order
C21_ExtractorPriorityOrder ==
  justExtracted =>
    inPriorityOrder(extracted(doc, auditUrl, build), expectedHead(doc), doc, auditUrl, build)

\* the reference build b selects for an image element, before resolution and filtering
selectedRef(img, b) == IF b = "index" THEN foundUrl(img) ELSE rawTargetOf(img, b)

auditCanStep ==
  \/ pc \in {"html", "ai"}
  \/ pc = "assets" /\ \E i \in 1..Len(tasks) : tasks[i] = Pending
  \/ pc = "assets" /\ joinReady(tasks)

\* an unfinished audit is never left without a step of its own
auditProgress == pc # "idle" => auditCanStep

\* the step that ends an audit leaves loading false, the status text empty and
\* exactly one of result and error set
finishesWithOneOutcome ==
  (pc # "idle" /\ pc' = "idle") =>
    /\ loading' = FALSE
    /\ statusText' = ""
    /\ (result' # NoResult) # (error' # NULL)

\* C23: every started audit finishes, with loading false, an empty status text and
\* exactly one of result and error set: while an audit is unfinished one of its own
\* steps can be taken (no fetch it waits for is left that can never settle), also
\* after a payload read failure, and the step that ends it leaves that outcome
C23_AuditTerminates ==
  /\ []auditProgress
  /\ [][finishesWithOneOutcome]_vars

\* C24: starting an audit clears the previous outcome before any network call:
\* whenever loading is true, both the result and the error are null
C24_LoadingClearsOutcome ==
  loading => (result = NoResult /\ error = NULL)

\* a second audit is running, its markup fetch issued, after a first one ended
C24_Witness ==
  /\ loading
  /\ audits = 2
  /\ pc = "html"
  /\ fetchLog = <<proxyUrlOf(auditUrl)>>

\* a run of handleAnalyze is pending exactly when loading is true, and then no error
\* panel (with its retry and clear buttons) is shown
inFlight == (loading <=> pc # "idle") /\ (loading => error = NULL)

\* a run of handleAnalyze starts only when none is pending
startsOnlyWhenIdle == (audits' # audits) => (pc = "idle" /\ ~loading)

\* loading goes back to false only in the step that ends the pending run
endsOnlyItsOwnRun == (loading /\ ~loading') => (pc # "idle" /\ pc' = "idle" /\ audits' = audits)

\* C25: at most one audit is in flight: while loading is true no user action (submit,
\* retry, clear) starts a second run of handleAnalyze, so loading is never reset to
\* false by one run while another is pending
C25_SingleAuditInFlight ==
  /\ []inFlight
  /\ [][startsOnlyWhenIdle]_vars
  /\ [][endsOnlyItsOwnRun]_vars

\* an audit is in flight and the field holds another URL the form would accept
C25_Witness ==
  /\ loading
  /\ pc = "assets"
  /\ validUrlField(url)
  /\ url # auditUrl

\* the prompt and the result of a run carry the URL the run was started with
usesSubmittedUrl ==
  /\ \A k \in 1..Len(aiLog) : aiLog[k].prompt = auditUrl
  /\ result # NoResult => result.url = auditUrl

\* the URL of a run is the content of the URL field when the run starts, and the
\* markup fetch the run issues is of that URL
capturesFieldAtStart ==
  (audits' # audits) =>
    /\ auditUrl' = url
    /\ url' = url
    /\ fetchLog' # <<>> => fetchLog' = <<proxyUrlOf(url)>>

\* the candidates are resolved against the URL the run was started with
resolvesAgainstSubmitted ==
  (pc = "html" /\ pc' = "assets") =>
    resolvedUrls' = resolveCandidates(doc', auditUrl, build)

\* within a run its URL, its markup fetch and its resolved candidates stay as they are
runKeepsUrl ==
  (audits' = audits) =>
    /\ auditUrl' = auditUrl
    /\ fetchLog # <<>> => (fetchLog' # <<>> /\ fetchLog'[1] = fetchLog[1])
    /\ resolvedUrls # <<>> => resolvedUrls' = resolvedUrls

\* a step that edits or clears the URL field changes nothing of the run
editLeavesRunAlone == (url' # url) => UNCHANGED <<loading, result, statusText, runVars>>

\* C26: the page URL of the result is the URL in the input when the audit was
\* submitted: editing or clearing the field while the audit is in flight changes
\* neither the URL fetched, nor the URL used for resolution and in the prompt, nor
\* the url of the final result
C26_SubmittedUrlUsed ==
  /\ []usesSubmittedUrl
  /\ [][capturesFieldAtStart]_vars
  /\ [][resolvesAgainstSubmitted]_vars
  /\ [][runKeepsUrl]_vars
  /\ [][editLeavesRunAlone]_vars

\* the field was cleared or edited while the analysis call was in flight
C26_Witness ==
  /\ pc = "ai"
  /\ loading
  /\ url # auditUrl
  /\ aiLog # <<>>
  /\ aiLog[1].prompt = auditUrl

\* with an empty URL field and no audit running, no step starts an audit, issues a
\* network call or changes loading, result or the status text, and the error changes
\* only by being cleared in a build that has the clear button
emptySubmitNoop ==
  (url = "" /\ pc = "idle") =>
    /\ audits' = audits
    /\ loading' = loading
    /\ result' = result
    /\ statusText' = statusText
    /\ fetchLog' = fetchLog
    /\ aiLog' = aiLog
    /\ pc' = pc
    /\ error' = error \/ (build \in {"index", "part"} /\ error' = NULL)

\* C27: submitting with an empty URL is a no-op: handleAnalyze returns without
\* changing loading, error, result or the status text and without any network call
C27_EmptyUrlNoop == [][emptySubmitNoop]_vars

\* the error panel with its retry button is shown and the URL field is empty: the
\* button calls handleAnalyze, which could start another audit were the field filled
C27_Witness ==
  /\ build \in {"App", "part"}
  /\ url = ""
  /\ error # NULL
  /\ pc = "idle"
  /\ audits < MaxAudits

\* the URL and the payload of image record r are both those of asset a, and the
\* payload is the one the fetch of that URL delivered
sameAsset(r, a) ==
  /\ r.url = a.url
  /\ r.base64 = a.base64
  /\ r.base64 = bodyBase64(r.url)

\* C28: in the builds that reconcile in two steps (the URL attached in
\* analyzeProductPage, the payload afterwards in handleAnalyze) the url and base64 of
\* every image record come from the same fetched asset: both are those of
\* validImages[i], or the URL is empty and the payload undefined
C28_TwoStepReconciliation ==
  (build \in {"App", "part"} /\ result # NoResult) =>
    \A i \in 1..Len(result.images) :
      \/ i <= Len(validAssets) /\ sameAsset(result.images[i], validAssets[i])
      \/ i > Len(validAssets) /\ result.images[i].url = ""
                              /\ result.images[i].base64 = UNDEFINED

\* a two-step build ended with three records over two assets, the first fetch having
\* delivered none, so that the assets' positions differ from the candidates'
C28_Witness ==
  /\ build \in {"App", "part"}
  /\ result # NoResult
  /\ Len(tasks) = 3
  /\ tasks[1] = NoAsset
  /\ Len(validAssets) = 2
  /\ Len(result.images) = 3
  /\ result.images[1].url = resolvedUrls[2]

\* the image element has a non-empty src or lazy-load attribute
hasOwnRef(img) == Truthy(img.src) \/ Truthy(img.dataSrc)

\* C29: every candidate derives from a non-empty raw reference, and every image
\* element with a non-empty src or lazy-load attribute contributes a reference: a
\* source-set that ends in a comma neither injects an empty reference (which would
\* resolve to the page's own origin) nor suppresses the element's src fallback
C29_TrailingCommaHarmless ==
  justExtracted =>
    /\ \A j \in 1..Len(extracted(doc, auditUrl, build)) :
         Truthy(extracted(doc, auditUrl, build)[j])
    /\ \A j \in 1..Len(resolvedUrls) :
         resolvedUrls[j] \notin {URLOrigin(auditUrl), URLOrigin(auditUrl) \o "/"}
    /\ \A i \in 1..Len(doc.imgs) :
         hasOwnRef(doc.imgs[i]) => Truthy(selectedRef(doc.imgs[i], build))

====
